---------------------------- MODULE Spec2Model ----------------------------
(***************************************************************************)
(* Model of train-ute/src/data_export.rs: the aligned binary chunk        *)
(* container writer write_bin and the two exporters built on it,          *)
(* export_shape_file and export_agent_transfers.                          *)
(*                                                                         *)
(* Numbers.  The writer mixes usize (64 bit) and u32 arithmetic and the    *)
(* interesting inputs are sizes around 2^32, which TLC's integers cannot   *)
(* hold.  A size is therefore kept as two limbs, [hi, lo], standing for    *)
(* hi * 2^16 + lo with 0 <= lo < 2^16; a u32 is a size with hi < 2^16.     *)
(*                                                                         *)
(* Bytes.  A byte string (a Rust &[u8], the file's content) is kept        *)
(* run-length encoded: a sequence of runs [b, n], n a size > 0, adjacent   *)
(* runs holding different bytes.  Equal byte strings have equal            *)
(* encodings, and a 4 GiB chunk is one run.                                *)
(***************************************************************************)
EXTENDS Integers, Sequences, FiniteSets, TLC

\* ------------------------------------------------------------- bounds
MaxChunks == 2
MaxFaults == 1

\* ------------------------------------------------------------- sizes
Limb == 2^16

U(n) == [hi |-> n \div Limb, lo |-> n % Limb]

UAdd(a, b) ==
    LET s == a.lo + b.lo
    IN  [hi |-> a.hi + b.hi + (s \div Limb), lo |-> s % Limb]

\* a - b, for a >= b
USub(a, b) ==
    LET d == a.lo - b.lo
    IN  IF d >= 0 THEN [hi |-> a.hi - b.hi, lo |-> d]
                  ELSE [hi |-> a.hi - b.hi - 1, lo |-> d + Limb]

ULt(a, b) == a.hi < b.hi \/ (a.hi = b.hi /\ a.lo < b.lo)

ULe(a, b) == a = b \/ ULt(a, b)

\* a * k for a small k
UMul(a, k) ==
    LET p == a.lo * k
    IN  [hi |-> a.hi * k + (p \div Limb), lo |-> p % Limb]

\* a faulty cast, which keeps every bit
AsU32NoTruncate(x) == x

\* usize -> u32: `as u32` keeps the low 32 bits
AsU32(x) == [hi |-> x.hi % Limb, lo |-> x.lo]

FitsU32(x) == x.hi < Limb

\* fn round_up_to_eight(num: usize) -> usize { (num + 7) & !7 }
round_up_to_eight(num) ==
    LET s == UAdd(num, U(7))
    IN  [hi |-> s.hi, lo |-> s.lo - (s.lo % 8)]

\* u32::to_le_bytes
to_le_bytes(x) == << x.lo % 256, x.lo \div 256, x.hi % 256, x.hi \div 256 >>

\* ------------------------------------------------------------- byte strings
BRun(b, n) == IF n = U(0) THEN << >> ELSE << [b |-> b, n |-> n] >>

BCat(x, y) ==
    IF x = << >> THEN y
    ELSE IF y = << >> THEN x
    ELSE IF x[Len(x)].b = y[1].b
         THEN SubSeq(x, 1, Len(x) - 1)
              \o << [b |-> y[1].b, n |-> UAdd(x[Len(x)].n, y[1].n)] >>
              \o Tail(y)
         ELSE x \o y

\* The recursions over a byte string halve it, which keeps them shallow.
RECURSIVE BOfRange(_, _, _)
BOfRange(s, lo, hi) ==
    IF lo > hi THEN << >>
    ELSE IF lo = hi THEN BRun(s[lo], U(1))
    ELSE LET mid == (lo + hi) \div 2
         IN  BCat(BOfRange(s, lo, mid), BOfRange(s, mid + 1, hi))

\* the byte string of a sequence of bytes
BOf(s) == BOfRange(s, 1, Len(s))

RECURSIVE BLenRange(_, _, _)
\* the bytes in the runs lo..hi of x
BLenRange(x, lo, hi) ==
    IF lo > hi THEN U(0)
    ELSE IF lo = hi THEN x[lo].n
    ELSE LET mid == (lo + hi) \div 2
         IN  UAdd(BLenRange(x, lo, mid), BLenRange(x, mid + 1, hi))

BLen(x) == BLenRange(x, 1, Len(x))

RECURSIVE WholeRuns(_, _, _, _)
\* the number of leading runs of x that lie within its first k bytes, known to be in lo..hi
WholeRuns(x, k, lo, hi) ==
    IF lo = hi THEN lo
    ELSE LET mid == (lo + hi + 1) \div 2
         IN  IF ULe(BLenRange(x, 1, mid), k) THEN WholeRuns(x, k, mid, hi)
                                             ELSE WholeRuns(x, k, lo, mid - 1)

\* the first k bytes of x (all of x when it has fewer)
BTake(x, k) ==
    LET j == WholeRuns(x, k, 0, Len(x))
        rest == USub(k, BLenRange(x, 1, j))
    IN  SubSeq(x, 1, j) \o
        (IF j < Len(x) /\ rest # U(0) THEN << [b |-> x[j + 1].b, n |-> rest] >> ELSE << >>)

\* x without its first k bytes
BDrop(x, k) ==
    LET j == WholeRuns(x, k, 0, Len(x))
        rest == USub(k, BLenRange(x, 1, j))
    IN  IF j = Len(x) THEN << >>
        ELSE IF rest = U(0) THEN SubSeq(x, j + 1, Len(x))
        ELSE << [b |-> x[j + 1].b, n |-> USub(x[j + 1].n, rest)] >> \o SubSeq(x, j + 2, Len(x))

\* the bytes [off, off + len) of x (fewer when x ends before off + len)
BSlice(x, off, len) == BTake(BDrop(x, off), len)

\* ------------------------------------------------------------- state
VARIABLES
    overflow_checks,       \* the build: with overflow checks (debug) or without (release)
    call,                  \* the function the caller invoked
    export_result,         \* what an exporter returned: "none" while running
    \* write_bin
    data_list,             \* its argument: a sequence of byte strings
    file,                  \* the content of the file at `path`
    index,                 \* the running offset, a u32
    written_bytes,         \* the count of header bytes written
    i,                     \* position of the running loop in data_list
    pc,
    result,                \* what write_bin returned: "none" while running
    faults,                \* I/O faults the environment has injected so far
    \* export_shape_file
    gtfs,                  \* its argument: [shapes, trips, routes]
    visited,               \* the shape ids the loop has iterated, in order
    resolved,              \* the locals `colour` and `height` of each iteration
    shape_points,
    shape_start_indices,
    shape_colours,
    colour_to_height_map,
    last_height,
    first_run,             \* the buffers of an earlier call on the same gtfs, or << >>
    \* export_agent_transfers
    network,               \* its argument: the stop id of each stop index, from 0
    agent_transfers,       \* its argument
    stop_points,
    start_indices,
    points,
    timestamps,
    colours

wvars == << data_list, file, index, written_bytes, i, pc, result, faults >>

svars == << gtfs, visited, resolved, shape_points, shape_start_indices, shape_colours,
            colour_to_height_map, last_height, first_run >>

tvars == << network, agent_transfers, stop_points, start_indices, points, timestamps, colours >>

\* all but write_bin's own variables
xvars == << call, export_result, svars, tvars >>

vars == << overflow_checks, call, export_result, wvars, svars, tvars >>

\* ------------------------------------------------------------- inputs
\* the chunk at position p with n bytes: bytes differ between positions
Pattern(p, n) == BOf([j \in 1..n |-> 16 * p + j])

\* sizes around 2^32: 2^32 - 8 and 2^32 + 3
BigLens == { [hi |-> Limb - 1, lo |-> Limb - 8], [hi |-> Limb, lo |-> 3] }

BigChunk(p, n) == BCat(Pattern(p, 3), BRun(200 + p, USub(n, U(3))))

\* small sizes: empty, the 2 and 5 of the format's worked example, exactly 8, past 8
SmallLens == { 0, 2, 5, 8, 9 }

ChunksAt(p) == { Pattern(p, n) : n \in SmallLens } \cup { BigChunk(p, n) : n \in BigLens }

ListsOfLen(k) ==
    { s \in [1..k -> UNION { ChunksAt(p) : p \in 1..k }] : \A p \in 1..k : s[p] \in ChunksAt(p) }

ChunkLists == UNION { ListsOfLen(k) : k \in 0..MaxChunks }

StaleFile == BOf(<< 222, 173 >>)

\* write_bin's locals before the call
NotWriting ==
    /\ index = U(0)
    /\ written_bytes = U(0)
    /\ i = 1
    /\ result = "none"
    /\ faults = 0

\* export_shape_file's locals before the call (lines 57-62)
NoShapeExport ==
    /\ visited = << >>
    /\ resolved = << >>
    /\ shape_points = << >>
    /\ shape_start_indices = << >>
    /\ shape_colours = << >>
    /\ colour_to_height_map = << >>
    /\ last_height = 0
    /\ first_run = << >>

\* export_agent_transfers's locals before the call
NoTransferExport ==
    /\ stop_points = << >>
    /\ start_indices = << >>
    /\ points = << >>
    /\ timestamps = << >>
    /\ colours = << >>

NoGtfs == [shapes |-> << >>, trips |-> { }, routes |-> << >>, stops |-> << >>]

\* a direct call of write_bin
InitWrite ==
    /\ overflow_checks \in BOOLEAN
    /\ call = "write_bin"
    /\ export_result = "none"
    /\ data_list \in ChunkLists
    /\ file \in { << >>, StaleFile }
    /\ pc = "create"
    /\ NotWriting
    /\ gtfs = NoGtfs
    /\ NoShapeExport
    /\ network = << >>
    /\ agent_transfers = << >>
    /\ NoTransferExport

\* ------------------------------------------------------------- write_bin
SizeOfU32 == 4

\* let header_size = data_list.len() * 2 * mem::size_of::<u32>();
header_size == UMul(UMul(U(Len(data_list)), 2), SizeOfU32)

\* where a loop over data_list goes after the element at position k
AfterElement(k, again, after) == IF k < Len(data_list) THEN again ELSE after

\* a faulty File::create, which opens the file without truncating it
CreateKeepingContent ==
    /\ pc = "create"
    /\ index' = AsU32(header_size)
    /\ written_bytes' = U(0)
    /\ i' = 1
    /\ pc' = AfterElement(0, "hdr_offset", "assert")
    /\ UNCHANGED << overflow_checks, data_list, file, result, faults >>
    /\ UNCHANGED xvars

\* let mut output_file = File::create(path)?; and the three lets after it
Create ==
    /\ pc = "create"
    /\ file' = << >>
    /\ index' = AsU32(header_size)
    /\ written_bytes' = U(0)
    /\ i' = 1
    /\ pc' = AfterElement(0, "hdr_offset", "assert")
    /\ UNCHANGED << overflow_checks, data_list, result, faults >>
    /\ UNCHANGED xvars

\* written_bytes += output_file.write(buf)?  where write took the first n bytes
HeaderWrite(buf, n, next) ==
    /\ file' = BCat(file, BOf(SubSeq(buf, 1, n)))
    /\ written_bytes' = UAdd(written_bytes, U(n))
    /\ pc' = next
    /\ UNCHANGED << overflow_checks, data_list, index, i, result >>
    /\ UNCHANGED xvars

\* a write that takes fewer bytes than it was given, which Write::write may do
ShortWrite(buf, next) ==
    /\ faults < MaxFaults
    /\ faults' = faults + 1
    /\ \E n \in 0..3 : HeaderWrite(buf, n, next)

\* the ? of a call that failed: write_bin returns the error
ReturnErr ==
    /\ faults < MaxFaults
    /\ faults' = faults + 1
    /\ result' = "IoError"
    /\ pc' = "done"
    /\ UNCHANGED << overflow_checks, data_list, index, written_bytes, i >>
    /\ UNCHANGED xvars

\* File::create fails: the file is as it was
CreateErr ==
    /\ pc = "create"
    /\ ReturnErr
    /\ UNCHANGED file

\* written_bytes += output_file.write(&index.to_le_bytes())?;
WriteOffset ==
    /\ pc = "hdr_offset"
    /\ HeaderWrite(to_le_bytes(index), 4, "hdr_length")
    /\ UNCHANGED faults

ShortOffset ==
    /\ pc = "hdr_offset"
    /\ ShortWrite(to_le_bytes(index), "hdr_length")

WriteOffsetErr ==
    /\ pc = "hdr_offset"
    /\ ReturnErr
    /\ UNCHANGED file

\* written_bytes += output_file.write(&(data.len() as u32).to_le_bytes())?;
WriteLength ==
    /\ pc = "hdr_length"
    /\ HeaderWrite(to_le_bytes(AsU32(BLen(data_list[i]))), 4, "hdr_advance")
    /\ UNCHANGED faults

ShortLength ==
    /\ pc = "hdr_length"
    /\ ShortWrite(to_le_bytes(AsU32(BLen(data_list[i]))), "hdr_advance")

WriteLengthErr ==
    /\ pc = "hdr_length"
    /\ ReturnErr
    /\ UNCHANGED file

\* index + round_up_to_eight(data.len()) as u32, before it is cut to 32 bits
AdvanceSum == UAdd(index, AsU32(round_up_to_eight(BLen(data_list[i]))))

\* index += round_up_to_eight(data.len()) as u32;
\* a u32 addition: a build without overflow checks wraps it
Advance ==
    /\ pc = "hdr_advance"
    /\ FitsU32(AdvanceSum) \/ ~overflow_checks
    /\ index' = AsU32(AdvanceSum)
    /\ i' = i + 1
    /\ pc' = AfterElement(i, "hdr_offset", "assert")
    /\ UNCHANGED << overflow_checks, data_list, file, written_bytes, result, faults >>
    /\ UNCHANGED xvars

\* the same addition in a build with overflow checks: "attempt to add with overflow"
AdvancePanic ==
    /\ pc = "hdr_advance"
    /\ ~FitsU32(AdvanceSum) /\ overflow_checks
    /\ pc' = "panic"
    /\ UNCHANGED << overflow_checks, data_list, file, index, written_bytes, i, result, faults >>
    /\ UNCHANGED xvars

\* assert_eq!(written_bytes, header_size);
AssertHeader ==
    /\ pc = "assert"
    /\ written_bytes = header_size
    /\ i' = 1
    /\ pc' = AfterElement(0, "data", "return")
    /\ UNCHANGED << overflow_checks, data_list, file, index, written_bytes, result, faults >>
    /\ UNCHANGED xvars

AssertPanic ==
    /\ pc = "assert"
    /\ written_bytes # header_size
    /\ pc' = "panic"
    /\ UNCHANGED << overflow_checks, data_list, file, index, written_bytes, i, result, faults >>
    /\ UNCHANGED xvars

\* let padding = round_up_to_eight(data.len()) - data.len();
padding(data) == USub(round_up_to_eight(BLen(data)), BLen(data))

\* the chunk and the zero bytes the second loop writes after it
Padded(data) == BCat(data, BRun(0, padding(data)))

\* where write_all or a padding write may fail: before any byte, after the
\* first byte of the chunk, and before the first padding byte
FailPoints(data) ==
    { U(0) } \cup (IF ULt(U(1), BLen(data)) THEN { U(1) } ELSE { })
             \cup (IF padding(data) # U(0) THEN { BLen(data) } ELSE { })

\* output_file.write_all(data)?; and the padding loop, for the chunk at i
WriteData ==
    /\ pc = "data"
    /\ file' = BCat(file, Padded(data_list[i]))
    /\ i' = i + 1
    /\ pc' = AfterElement(i, "data", "return")
    /\ UNCHANGED << overflow_checks, data_list, index, written_bytes, result, faults >>
    /\ UNCHANGED xvars

\* one of these writes fails: what was written before it stays in the file
WriteDataErr ==
    /\ pc = "data"
    /\ ReturnErr
    /\ \E k \in FailPoints(data_list[i]) : file' = BCat(file, BTake(Padded(data_list[i]), k))

\* Ok(())
ReturnOk ==
    /\ pc = "return"
    /\ result' = "Ok"
    /\ pc' = "done"
    /\ UNCHANGED << overflow_checks, data_list, file, index, written_bytes, i, faults >>
    /\ UNCHANGED xvars

\* write_bin with every outcome of its I/O
WriteBin ==
    \/ Create \/ CreateErr
    \/ WriteOffset \/ ShortOffset \/ WriteOffsetErr
    \/ WriteLength \/ ShortLength \/ WriteLengthErr
    \/ Advance \/ AdvancePanic
    \/ AssertHeader \/ AssertPanic
    \/ WriteData \/ WriteDataErr
    \/ ReturnOk

Next == WriteBin

Spec == InitWrite /\ [][Next]_vars

\* ------------------------------------------------------------- casts to bytes
\* floor(log2(a)) for a >= 1
RECURSIVE Log2(_)
Log2(a) == IF a < 2 THEN 0 ELSE 1 + Log2(a \div 2)

\* The 8 bytes of an f64 on a little-endian host, for an integer value v with
\* |v| < 2^20: sign, 11 bits of exponent, 52 of mantissa.
F64Bytes(v) ==
    IF v = 0 THEN << 0, 0, 0, 0, 0, 0, 0, 0 >>
    ELSE LET a == IF v < 0 THEN -v ELSE v
             e == Log2(a)
             m20 == (a - 2^e) * 2^(20 - e)     \* the top 20 bits of the mantissa
             w3 == (IF v < 0 THEN 32768 ELSE 0) + (1023 + e) * 16 + (m20 \div 65536)
             w2 == m20 % 65536
         IN  << 0, 0, 0, 0, w2 % 256, w2 \div 256, w3 % 256, w3 \div 256 >>

RECURSIVE FlatRange(_, _, _)
FlatRange(ss, lo, hi) ==
    IF lo > hi THEN << >>
    ELSE IF lo = hi THEN ss[lo]
    ELSE LET mid == (lo + hi) \div 2
         IN  FlatRange(ss, lo, mid) \o FlatRange(ss, mid + 1, hi)

\* the concatenation of a sequence of sequences
Flat(ss) == FlatRange(ss, 1, Len(ss))

\* bytemuck::must_cast_slice of a &[f64]
CastF64(values) == BOf(Flat([k \in 1..Len(values) |-> F64Bytes(values[k])]))

\* bytemuck::must_cast_slice of a &[u32]
CastU32(values) == BOf(Flat([k \in 1..Len(values) |-> to_le_bytes(values[k])]))

\* a / k for a small k
UDiv(a, k) == [hi |-> a.hi \div k, lo |-> ((a.hi % k) * Limb + a.lo) \div k]

\* ------------------------------------------------------------- export_shape_file
Range(f) == { f[x] : x \in DOMAIN f }

\* the shapes the loop over gtfs.shapes (a HashMap) has not reached: it may
\* reach them in any order
Unvisited == DOMAIN gtfs.shapes \ Range(visited)

\* gtfs.trips.values().find(|trip| trip.shape_id.as_ref() == Some(shape_id)):
\* the trips one of which find returns, which one being up to the HashMap's order
TripsOf(shape_id) == { trip \in gtfs.trips : trip.shape_id = { shape_id } }

\* a faulty height, which never looks a colour up
HeightAlwaysNew(colour) == last_height + 10

\* let height = if let Some(&height) = colour_to_height_map.get(&colour) { height }
\*              else { last_height += 10.; ...; last_height };
HeightOf(colour) ==
    IF colour \in DOMAIN colour_to_height_map THEN colour_to_height_map[colour]
    ELSE last_height + 10

\* a faulty start index, in coordinates
StartIndexInCoordinates(buffer) == AsU32(U(Len(buffer)))

\* shape_points.len() as u32 / 3   (also points.len() as u32 / 3)
StartIndex(buffer) == UDiv(AsU32(U(Len(buffer))), 3)

\* one iteration of the loop, lines 64-91, for a shape whose trip and route are found
ShapeLoop ==
    /\ pc = "shapes"
    /\ \E shape_id \in Unvisited : \E trip \in TripsOf(shape_id) :
        /\ trip.route_id \in DOMAIN gtfs.routes
        /\ LET colour == gtfs.routes[trip.route_id].color
               height == HeightOf(colour)
               shape  == gtfs.shapes[shape_id]
           IN  /\ last_height' = IF colour \in DOMAIN colour_to_height_map
                                 THEN last_height ELSE last_height + 10
               /\ colour_to_height_map' = IF colour \in DOMAIN colour_to_height_map
                                          THEN colour_to_height_map
                                          ELSE colour_to_height_map @@ (colour :> last_height + 10)
               /\ shape_start_indices' = Append(shape_start_indices, StartIndex(shape_points))
               /\ shape_points' = shape_points \o
                      Flat([k \in 1..Len(shape) |->
                               << shape[k].longitude, shape[k].latitude, height >>])
               /\ shape_colours' = shape_colours \o Flat([k \in 1..Len(shape) |-> colour])
               /\ visited' = Append(visited, shape_id)
               /\ resolved' = Append(resolved, [colour |-> colour, height |-> height])
    /\ UNCHANGED << overflow_checks, call, export_result, wvars, gtfs, first_run, tvars >>

\* find(...).unwrap() on a shape no trip uses: the thread panics
ShapeNoTrip ==
    /\ pc = "shapes"
    /\ \E shape_id \in Unvisited : TripsOf(shape_id) = { }
    /\ pc' = "panic"
    /\ UNCHANGED << overflow_checks, call, export_result, data_list, file, index,
                    written_bytes, i, result, faults, svars, tvars >>

\* gtfs.routes.get(&trip.route_id).unwrap() on a route that is not there: the same
ShapeNoRoute ==
    /\ pc = "shapes"
    /\ \E shape_id \in Unvisited : \E trip \in TripsOf(shape_id) :
           trip.route_id \notin DOMAIN gtfs.routes
    /\ pc' = "panic"
    /\ UNCHANGED << overflow_checks, call, export_result, data_list, file, index,
                    written_bytes, i, result, faults, svars, tvars >>

\* write_bin(path, &[must_cast_slice(&shape_points), must_cast_slice(&shape_start_indices),
\*                   &shape_colours]): the call, line 93
ShapeCallWriteBin ==
    /\ pc = "shapes"
    /\ Unvisited = { }
    /\ data_list' = << CastF64(shape_points), CastU32(shape_start_indices), BOf(shape_colours) >>
    /\ pc' = "create"
    /\ UNCHANGED << overflow_checks, call, export_result, file, index, written_bytes, i,
                    result, faults, svars, tvars >>

\* write_bin(...)?; Ok(())   the ? turns an io::Error into DataExportError::IoError
ExportReturn ==
    /\ pc = "done"
    /\ call # "write_bin"
    /\ export_result' = result
    /\ pc' = "exported"
    /\ UNCHANGED << overflow_checks, call, data_list, file, index, written_bytes, i,
                    result, faults, svars, tvars >>

\* write_bin as an exporter calls it.  The chunks of these exporters are far
\* from 2^32 bytes, and the faults of its writes (a short write, which makes
\* the assertion fail, and a failed write) are left to Spec: here File::create
\* may fail, and every write takes all its bytes.
WriteBinCalled ==
    \/ Create \/ CreateErr
    \/ WriteOffset
    \/ WriteLength
    \/ Advance
    \/ AssertHeader
    \/ WriteData
    \/ ReturnOk

\* ---- the inputs of export_shape_file
MaxShapes == 3
MaxPoints == 2

Red == << 255, 0, 0 >>
Blue == << 0, 0, 255 >>
Green == << 0, 128, 0 >>

\* gtfs.routes: two routes share a colour; no route is called "Z"
Routes == [A |-> [color |-> Red], B |-> [color |-> Blue], C |-> [color |-> Green],
           D |-> [color |-> Red]]

Trip(shape, route) == [shape_id |-> shape, route_id |-> route]

\* the trips that use a shape: none, one, two of different routes, one of a missing route
TripChoices(s) ==
    << { }, { Trip({s}, "A") }, { Trip({s}, "B") }, { Trip({s}, "C") }, { Trip({s}, "D") },
       { Trip({s}, "A"), Trip({s}, "B") }, { Trip({s}, "Z") } >>

\* point k of shape s
PointOf(s, k) == [longitude |-> 140 + s, latitude |-> 0 - (30 + k)]

ShapeOf(s, n) == [k \in 1..n |-> PointOf(s, k)]

\* gtfs with n shapes, shape s of count[s] points and used by the trips
\* TripChoices(s)[use[s]], and a trip without a shape
GtfsOf(n, count, use) ==
    [shapes |-> [s \in 1..n |-> ShapeOf(s, count[s])],
     trips  |-> UNION { TripChoices(s)[use[s]] : s \in 1..n } \cup { Trip({ }, "A") },
     routes |-> Routes,
     stops  |-> << >>]

\* The loop reaches the shapes in every order, so that which shape has which
\* trips or points is immaterial: the inputs are listed up to a renaming of
\* the shapes, as the nondecreasing functions on 1..n.
Nondecreasing(n, S) == { f \in [1..n -> S] : \A s \in 1..n - 1 : f[s] <= f[s + 1] }

\* every choice of trips with one point a shape, and every choice of point
\* counts with the shapes' trips on routes A, B, C, D in turn
Gtfses(max) ==
    UNION { { GtfsOf(n, [s \in 1..n |-> 1], use) : use \in Nondecreasing(n, 1..7) }
            \cup
            { GtfsOf(n, count, [s \in 1..n |-> 2 + ((s - 1) % 4)]) :
                count \in Nondecreasing(n, 0..MaxPoints) }
          : n \in 0..max }

InitShapeOf(max) ==
    /\ overflow_checks \in BOOLEAN
    /\ call = "export_shape_file"
    /\ export_result = "none"
    /\ data_list = << >>
    /\ file = << >>
    /\ pc = "shapes"
    /\ NotWriting
    /\ gtfs \in Gtfses(max)
    /\ NoShapeExport
    /\ network = << >>
    /\ agent_transfers = << >>
    /\ NoTransferExport

InitShape == InitShapeOf(MaxShapes)

NextShape ==
    \/ ShapeLoop \/ ShapeNoTrip \/ ShapeNoRoute \/ ShapeCallWriteBin
    \/ WriteBinCalled
    \/ ExportReturn

SpecShape == InitShape /\ [][NextShape]_vars

\* ---- a second run of export_shape_file over the same feed.  gtfs.shapes and
\* gtfs.trips are HashMaps with the default hasher, which is keyed at random
\* when a map is made: the maps of another run hold the same entries and may
\* yield them in another order.  The buffers of the first run are kept aside.
RunAgain ==
    /\ pc = "exported"
    /\ first_run = << >>
    /\ first_run' = << [points |-> shape_points, start_indices |-> shape_start_indices,
                        colours |-> shape_colours, heights |-> colour_to_height_map] >>
    /\ visited' = << >>
    /\ resolved' = << >>
    /\ shape_points' = << >>
    /\ shape_start_indices' = << >>
    /\ shape_colours' = << >>
    /\ colour_to_height_map' = << >>
    /\ last_height' = 0
    /\ export_result' = "none"
    /\ result' = "none"
    /\ pc' = "shapes"
    /\ UNCHANGED << overflow_checks, call, data_list, file, index, written_bytes, i, faults,
                    gtfs, tvars >>

InitTwoRuns == InitShapeOf(2)

NextTwoRuns == NextShape \/ RunAgain

SpecTwoRuns == InitTwoRuns /\ [][NextTwoRuns]_vars

\* ------------------------------------------------------------- export_agent_transfers
\* gtfs.stops[stop_id] and stop.longitude.unwrap(), stop.latitude.unwrap() succeed
StopResolves(stop_id) ==
    /\ stop_id \in DOMAIN gtfs.stops
    /\ gtfs.stops[stop_id].longitude # { }
    /\ gtfs.stops[stop_id].latitude # { }

\* (stop.longitude.unwrap(), stop.latitude.unwrap())
Unwrapped(stop) ==
    << CHOOSE x \in stop.longitude : TRUE, CHOOSE y \in stop.latitude : TRUE >>

\* one iteration of the loop over 0..network.num_stops(), lines 101-105
StopPoint ==
    /\ pc = "stops"
    /\ Len(stop_points) < Len(network)
    /\ LET stop_id == network[Len(stop_points) + 1]
       IN  /\ StopResolves(stop_id)
           /\ stop_points' = Append(stop_points, Unwrapped(gtfs.stops[stop_id]))
    /\ UNCHANGED << overflow_checks, call, export_result, wvars, svars, network,
                    agent_transfers, start_indices, points, timestamps, colours >>

\* the index into gtfs.stops or an unwrap panics
StopPanic ==
    /\ pc = "stops"
    /\ Len(stop_points) < Len(network)
    /\ ~StopResolves(network[Len(stop_points) + 1])
    /\ pc' = "panic"
    /\ UNCHANGED << overflow_checks, call, export_result, data_list, file, index,
                    written_bytes, i, result, faults, svars, tvars >>

\* the loop is over; lines 108-115 allocate the empty buffers
StopsDone ==
    /\ pc = "stops"
    /\ Len(stop_points) = Len(network)
    /\ pc' = "transfers"
    /\ UNCHANGED << overflow_checks, call, export_result, data_list, file, index,
                    written_bytes, i, result, faults, svars, tvars >>

\* `as f32` of a non-negative integer: the nearest value with 24 significant
\* bits, a tie going to the even one
AsF32(n) ==
    IF n < 2^24 THEN n
    ELSE LET ulp == 2^(Log2(n) - 23)
             q == n \div ulp
             r == n % ulp
         IN  IF 2 * r > ulp \/ (2 * r = ulp /\ q % 2 = 1) THEN (q + 1) * ulp ELSE q * ulp

\* The 4 bytes of an f32 on a little-endian host, for a non-negative integer
\* value it holds exactly: 8 bits of exponent, 23 of mantissa.
F32Bytes(v) ==
    IF v = 0 THEN << 0, 0, 0, 0 >>
    ELSE LET e == Log2(v)
             m23 == IF e <= 23 THEN (v - 2^e) * 2^(23 - e) ELSE (v - 2^e) \div 2^(e - 23)
             w1 == (127 + e) * 128 + (m23 \div 65536)
             w0 == m23 % 65536
         IN  << w0 % 256, w0 \div 256, w1 % 256, w1 \div 256 >>

\* bytemuck::must_cast_slice of a &[f32]
CastF32(values) == BOf(Flat([k \in 1..Len(values) |-> F32Bytes(values[k])]))

\* let height = 100.;
TransferHeight == 100

\* Purple for now.
Purple == << 160, 32, 240 >>

\* the transfer the loop over agent_transfers is at
ThisTransfer == agent_transfers[Len(start_indices) + 1]

\* stop_points[idx as usize] is within bounds
InBounds(idx) == idx < Len(stop_points)

\* a faulty segment, end before start
SegmentSwapped(transfer) ==
    << stop_points[transfer.end_idx + 1][1], stop_points[transfer.end_idx + 1][2], TransferHeight,
       stop_points[transfer.start_idx + 1][1], stop_points[transfer.start_idx + 1][2], TransferHeight >>

\* the six values pushed to points for a transfer, lines 121-129
Segment(transfer) ==
    << stop_points[transfer.start_idx + 1][1], stop_points[transfer.start_idx + 1][2], TransferHeight,
       stop_points[transfer.end_idx + 1][1], stop_points[transfer.end_idx + 1][2], TransferHeight >>

\* one iteration of the loop, lines 117-142
TransferLoop ==
    /\ pc = "transfers"
    /\ Len(start_indices) < Len(agent_transfers)
    /\ InBounds(ThisTransfer.start_idx) /\ InBounds(ThisTransfer.end_idx)
    /\ start_indices' = Append(start_indices, StartIndex(points))
    /\ points' = points \o Segment(ThisTransfer)
    /\ timestamps' = timestamps \o
           << AsF32(ThisTransfer.timestamp), AsF32(ThisTransfer.arrival_time) >>
    /\ colours' = colours \o Purple \o Purple
    /\ UNCHANGED << overflow_checks, call, export_result, wvars, svars, network,
                    agent_transfers, stop_points >>

\* stop_points[...] with an index out of bounds panics
TransferPanic ==
    /\ pc = "transfers"
    /\ Len(start_indices) < Len(agent_transfers)
    /\ ~InBounds(ThisTransfer.start_idx) \/ ~InBounds(ThisTransfer.end_idx)
    /\ pc' = "panic"
    /\ UNCHANGED << overflow_checks, call, export_result, data_list, file, index,
                    written_bytes, i, result, faults, svars, tvars >>

\* write_bin(path, &[points, start_indices, timestamps, &colours]): the call, line 144
TransferCallWriteBin ==
    /\ pc = "transfers"
    /\ Len(start_indices) = Len(agent_transfers)
    /\ data_list' = << CastF64(points), CastU32(start_indices), CastF32(timestamps),
                       BOf(colours) >>
    /\ pc' = "create"
    /\ UNCHANGED << overflow_checks, call, export_result, file, index, written_bytes, i,
                    result, faults, svars, tvars >>

\* ---- the inputs of export_agent_transfers
MaxStops == 2
MaxTransfers == 2

Some(x) == { x }

\* stop k, from 1, lies at (2k - 1, 2k)
GoodStop(k) == [longitude |-> Some(2 * k - 1), latitude |-> Some(2 * k)]

\* what gtfs.stops holds under the id of stop k
StopKinds(k) ==
    { << GoodStop(k) >>,
      << [longitude |-> { }, latitude |-> Some(2 * k)] >>,
      << [longitude |-> Some(2 * k - 1), latitude |-> { }] >>,
      << >> }

\* gtfs.stops of n stops, the stop `bad` (if in 1..n) being of kind `kind`
StopsOf(n, bad, kind) ==
    LET ids == { k \in 1..n : k # bad \/ kind # << >> }
    IN  [k \in ids |-> IF k = bad THEN kind[1] ELSE GoodStop(k)]

\* the times of the transfer at position k: after the first, an arrival time
\* that 24 bits do not hold
TimesAt(k) == IF k = 1 THEN << 100, 220 >> ELSE << 86399 + k, 2^24 + 2 * k - 3 >>

TransferAt(k, s, e) ==
    [start_idx |-> s, end_idx |-> e, timestamp |-> TimesAt(k)[1], arrival_time |-> TimesAt(k)[2]]

\* the transfer lists of length m: stop indices from 0 to MaxStops, the last
\* of which no stop has
TransferLists(m) ==
    { [k \in 1..m |-> TransferAt(k, se[k][1], se[k][2])] :
        se \in [1..m -> (0..MaxStops) \X (0..MaxStops)] }

\* sound stops with every transfer list, and one unsound stop with no transfer
InitTransfer ==
    /\ overflow_checks \in BOOLEAN
    /\ call = "export_agent_transfers"
    /\ export_result = "none"
    /\ data_list = << >>
    /\ file = << >>
    /\ pc = "stops"
    /\ NotWriting
    /\ NoShapeExport
    /\ NoTransferExport
    /\ \E n \in 0..MaxStops :
        /\ network = [k \in 1..n |-> k]
        /\ \/ /\ gtfs = [NoGtfs EXCEPT !.stops = StopsOf(n, 0, << >>)]
              /\ agent_transfers \in UNION { TransferLists(m) : m \in 0..MaxTransfers }
           \/ /\ \E bad \in 1..n : \E kind \in StopKinds(bad) :
                     gtfs = [NoGtfs EXCEPT !.stops = StopsOf(n, bad, kind)]
              /\ agent_transfers = << >>

NextTransfer ==
    \/ StopPoint \/ StopPanic \/ StopsDone
    \/ TransferLoop \/ TransferPanic \/ TransferCallWriteBin
    \/ WriteBinCalled
    \/ ExportReturn

SpecTransfer == InitTransfer /\ [][NextTransfer]_vars

\* ------------------------------------------------------------- reading a container
\* What a consumer of the format does with a written file: it is how the
\* properties below look at `file`, and it models no code of the writer.
RECURSIVE BExpand(_)
BExpand(x) ==
    IF x = << >> THEN << >>
    ELSE << x[1].b >> \o BExpand(BDrop(x, U(1)))

from_le_bytes(b) == [hi |-> b[3] + 256 * b[4], lo |-> b[1] + 256 * b[2]]

ReadU32(pos) == from_le_bytes(BExpand(BSlice(file, pos, U(4))))

HdrOffset(k) == ReadU32(U(8 * (k - 1)))

HdrLength(k) == ReadU32(U(8 * (k - 1) + 4))

\* the least multiple of 8 that is >= n
RoundUp8(n) == IF n.lo % 8 = 0 THEN n ELSE UAdd(n, U(8 - (n.lo % 8)))

\* the value modulo 2^32
Mod2p32(n) == [hi |-> n.hi % Limb, lo |-> n.lo]

Count == Len(data_list)

RECURSIVE PaddedBefore(_)
\* the sum of the padded lengths of the chunks before position k
PaddedBefore(k) ==
    IF k <= 1 THEN U(0) ELSE UAdd(PaddedBefore(k - 1), RoundUp8(BLen(data_list[k - 1])))

\* where chunk k really starts in the file; TrueOffset(Count + 1) is the file's length
TrueOffset(k) == UAdd(U(8 * Count), PaddedBefore(k))

\* the end of the region the header gives chunk k: the next offset, or the end of the file
NextOffset(k) == IF k < Count THEN HdrOffset(k + 1) ELSE BLen(file)

Returned == pc = "done" /\ result = "Ok"

Oversize == ~FitsU32(TrueOffset(Count + 1)) \/ \E k \in 1..Count : ~FitsU32(BLen(data_list[k]))

AllZero(x) == \A r \in 1..Len(x) : x[r].b = 0

\* C1: the header write_bin writes has offset[0] = 8 * count and
\* offset[i+1] = offset[i] + round_up_to_8(length[i]) for the unpadded length of
\* chunk i, so that every recorded offset is a multiple of 8.
C1_HeaderLayout ==
    Returned =>
        /\ Count > 0 => HdrOffset(1) = U(8 * Count)
        /\ \A k \in 1..Count - 1 :
               HdrOffset(k + 1) = UAdd(HdrOffset(k), RoundUp8(BLen(data_list[k])))
        /\ \A k \in 1..Count : HdrOffset(k).lo % 8 = 0

\* C2: slicing the written file at [offset[i], offset[i] + length[i]), both read
\* from its header, gives back chunk i, for every i.
C2_RoundTrip ==
    Returned =>
        \A k \in 1..Count : BSlice(file, HdrOffset(k), HdrLength(k)) = data_list[k]

\* C3: a successful write_bin leaves a file of length
\* 8 * count + the sum of the padded chunk lengths; 0 for the empty list.
C3_FileLength ==
    Returned =>
        /\ BLen(file) = TrueOffset(Count + 1)
        /\ Count = 0 => file = << >>

C3_Witness ==
    /\ Returned
    /\ Count = MaxChunks
    /\ \E k \in 1..Count : BLen(data_list[k]).lo % 8 # 0
    /\ \E k \in 1..Count : ~FitsU32(BLen(data_list[k]))

\* C4: offset[i] + length[i] <= offset[i+1] (the end of the file for the last
\* chunk), no two chunk regions overlap, and the bytes between the end of a
\* chunk and the next offset are zero.
C4_PaddingZero ==
    Returned =>
        /\ \A k \in 1..Count :
               /\ ULe(UAdd(HdrOffset(k), HdrLength(k)), NextOffset(k))
               /\ AllZero(BSlice(file, UAdd(HdrOffset(k), HdrLength(k)),
                                 USub(NextOffset(k), UAdd(HdrOffset(k), HdrLength(k)))))
        /\ \A k, m \in 1..Count :
               k < m => ULe(UAdd(HdrOffset(k), HdrLength(k)), HdrOffset(m))

\* ------------------------------------------------------------- the exporters' buffers
\* the colours of the shapes visited so far, up to the first shape of colour c
FirstSeen(c) ==
    CHOOSE k \in DOMAIN resolved :
        resolved[k].colour = c /\ \A j \in 1..k - 1 : resolved[j].colour # c

\* the rank of colour c among the colours, in the order they were first met
Rank(c) == Cardinality({ resolved[j].colour : j \in 1..FirstSeen(c) })

RECURSIVE PointsBefore(_)
\* the number of points of the shapes visited before the k-th
PointsBefore(k) ==
    IF k <= 1 THEN 0 ELSE PointsBefore(k - 1) + Len(gtfs.shapes[visited[k - 1]])

\* C5: shapes of the same route colour get the same height, the first colour met
\* gets 10, and the heights of two shapes of different colours differ by 10
\* times the difference of the ranks of their colours in order of first
\* encounter; the height of a shape is the third coordinate of its points.
C5_ColourHeights ==
    /\ resolved # << >> => resolved[1].height = 10
    /\ \A a, b \in DOMAIN resolved :
           /\ resolved[a].colour = resolved[b].colour => resolved[a].height = resolved[b].height
           /\ resolved[a].height - resolved[b].height
                  = 10 * (Rank(resolved[a].colour) - Rank(resolved[b].colour))
    /\ \A a \in DOMAIN resolved :
           /\ resolved[a].colour \in DOMAIN colour_to_height_map
           /\ colour_to_height_map[resolved[a].colour] = resolved[a].height
           /\ \A j \in 1..Len(gtfs.shapes[visited[a]]) :
                  shape_points[3 * (PointsBefore(a) + j)] = resolved[a].height

\* three shapes exported, the first and the last of one colour through two
\* routes, the second of another colour
C5_Witness ==
    /\ pc = "exported"
    /\ export_result = "Ok"
    /\ Len(resolved) = 3
    /\ resolved[1].colour = Red
    /\ resolved[2].colour = Blue
    /\ resolved[3].colour = Red
    /\ Trip({visited[1]}, "A") \in gtfs.trips
    /\ Trip({visited[3]}, "D") \in gtfs.trips

\* C6: the start-index table has one entry for each shape exported, its first
\* entry is 0, and entry k is the number of points (not of coordinates) of the
\* shapes before the k-th, shapes without points included.
C6_StartIndices ==
    /\ Len(shape_start_indices) = Len(visited)
    /\ shape_start_indices # << >> => shape_start_indices[1] = U(0)
    /\ \A k \in DOMAIN shape_start_indices : shape_start_indices[k] = U(PointsBefore(k))
    /\ pc = "exported" => Len(shape_start_indices) = Len(gtfs.shapes)

\* a shape without points exported between two shapes with points
C6_Witness ==
    /\ pc = "exported"
    /\ export_result = "Ok"
    /\ Len(visited) = 3
    /\ Len(gtfs.shapes[visited[1]]) = MaxPoints
    /\ Len(gtfs.shapes[visited[2]]) = 0
    /\ Len(gtfs.shapes[visited[3]]) > 0

\* the location of the stop with index idx, from 0
StopLocation(idx) ==
    LET stop == gtfs.stops[network[idx + 1]]
    IN  << CHOOSE x \in stop.longitude : TRUE, CHOOSE y \in stop.latitude : TRUE >>

\* C7: with valid stop indices, the point buffer has 6 values and the timestamp
\* buffer 2 values for each transfer; the points of the k-th transfer are
\* (lon, lat, 100) of the stop at start_idx, then (lon, lat, 100) of the stop at
\* end_idx; its timestamp and arrival_time, as f32, are next to each other at
\* the k-th pair of positions of the timestamp buffer.
C7_TransferBuffers ==
    LET n == Len(start_indices)
    IN  /\ Len(points) = 6 * n
        /\ Len(timestamps) = 2 * n
        /\ n <= Len(agent_transfers)
        /\ pc = "exported" => n = Len(agent_transfers)
        /\ \A k \in 1..n :
               LET transfer == agent_transfers[k]
                   start == StopLocation(transfer.start_idx)
                   end == StopLocation(transfer.end_idx)
               IN  /\ SubSeq(points, 6 * k - 5, 6 * k)
                          = << start[1], start[2], 100, end[1], end[2], 100 >>
                   /\ timestamps[2 * k - 1] = AsF32(transfer.timestamp)
                   /\ timestamps[2 * k] = AsF32(transfer.arrival_time)

\* two transfers exported, there and back between two stops
C7_Witness ==
    /\ pc = "exported"
    /\ export_result = "Ok"
    /\ Len(agent_transfers) = 2
    /\ agent_transfers[1].start_idx = 0 /\ agent_transfers[1].end_idx = 1
    /\ agent_transfers[2].start_idx = 1 /\ agent_transfers[2].end_idx = 0
    /\ timestamps = << 100, 220, 86401, 2^24 >>

\* a shape of gtfs that no trip uses, or that a trip of an absent route uses
MissingLookup ==
    \E shape_id \in DOMAIN gtfs.shapes :
        \/ TripsOf(shape_id) = { }
        \/ \E trip \in TripsOf(shape_id) : trip.route_id \notin DOMAIN gtfs.routes

\* C8: a lookup that finds nothing does not end the process: the exporter
\* returns, and what it returns is the error value NotFound.
C8_LookupFailureReported ==
    /\ pc # "panic"
    /\ (pc = "exported" /\ MissingLookup) => export_result = "NotFound"

\* C9: a second run of export_shape_file over the same feed gives every colour
\* the height the first run gave it, and fills the point, start-index and
\* colour buffers as the first run did.
C9_SameBuffers ==
    (pc = "exported" /\ first_run # << >>) =>
        /\ colour_to_height_map = first_run[1].heights
        /\ shape_points = first_run[1].points
        /\ shape_start_indices = first_run[1].start_indices
        /\ shape_colours = first_run[1].colours

\* C10 as stated: when the sizes exceed the 32-bit range the call does not fail,
\* and records offsets and lengths equal to the true values modulo 2^32.
C10_NeverFails ==
    (Oversize /\ faults = 0) =>
        /\ pc # "panic"
        /\ Returned => \A k \in 1..Count :
               /\ HdrOffset(k) = Mod2p32(TrueOffset(k))
               /\ HdrLength(k) = Mod2p32(BLen(data_list[k]))

\* C10 amended: write_bin never validates sizes and never returns an error for
\* them.  Every length it records is the chunk's length modulo 2^32 and every
\* offset the true offset modulo 2^32; a build without overflow checks never
\* panics on sizes, and a build with overflow checks panics exactly at an
\* addition to the running offset that leaves the 32-bit range.
C10_SilentWrap ==
    /\ Returned => \A k \in 1..Count :
           /\ HdrOffset(k) = Mod2p32(TrueOffset(k))
           /\ HdrLength(k) = Mod2p32(BLen(data_list[k]))
           /\ overflow_checks =>
                  FitsU32(UAdd(Mod2p32(TrueOffset(k)), Mod2p32(RoundUp8(BLen(data_list[k])))))
    /\ result = "IoError" => faults > 0
    /\ (pc = "panic" /\ faults = 0) =>
           /\ overflow_checks
           /\ ~FitsU32(UAdd(index, Mod2p32(RoundUp8(BLen(data_list[i])))))

C10_Witness == Returned /\ Oversize /\ ~overflow_checks /\ Count = MaxChunks

=============================================================================
